---------------------------- MODULE Spec2Model ----------------------------
(***************************************************************************)
(* A model of httpbin_sdk: the request-argument builder                    *)
(* (internal_utils.py), the client facade (client.py), the response        *)
(* validator (response.py) and the SDK's exceptions (errors.py).           *)
(*                                                                         *)
(* Python values are modelled as follows.                                  *)
(*   - a str used as a mapping key, header value or token: a TLA+ string;  *)
(*   - None in such a position: the string None ("<None>");                *)
(*   - a dict: a function whose domain is the set of its keys;             *)
(*   - None where a dict is expected: NoDict;                              *)
(*   - a response body or a message: a sequence of one-character strings,  *)
(*     so that stripping, splitting, slicing and parsing are computed.     *)
(* A call that raises is recorded with the exception's type, and with the  *)
(* values its local variables held when it raised.                         *)
(***************************************************************************)
EXTENDS Integers, Sequences, FiniteSets, TLC

VARIABLES
    client,       \* the BaseClient instance: token, headers, default_params
    pc,           \* "idle": the caller is between calls; "done": a call ended
    call,         \* the call that ended last: its arguments and its outcome
    json_obj,     \* the caller's dict object passed as json= (NoDict: none)
    headers_obj,  \* the caller's dict object passed as headers= (NoDict: none)
    transport     \* how many times the transport was invoked

vars == <<client, pc, call, json_obj, headers_obj, transport>>

---------------------------------------------------------------------------
(* Python values *)

None == "<None>"

\* None passed (or held) where a mapping is expected.
NoDict == [k \in {"<None>"} |-> "<None>"]

\* {}
EmptyDict == [k \in {} |-> None]

\* bool(v) for the scalar values of the model: None, 0, False and "" are falsy.
Truthy(v) == v \notin {None, "<0>", "<False>", ""}

\* str(v), as "{}".format(v) renders it.
PyStr(v) ==
    CASE v = None      -> "None"
      [] v = "<0>"     -> "0"
      [] v = "<False>" -> "False"
      [] OTHER         -> v

\* dict.update: d.update(e)
Update(d, e) ==
    [k \in (DOMAIN d) \cup (DOMAIN e) |-> IF k \in DOMAIN e THEN e[k] ELSE d[k]]

\* dict.pop(key, None), the mapping that is left
Pop(d, key) == [k \in (DOMAIN d) \ {key} |-> d[k]]

\* {k: v for k, v in d.items() if v is not None}
StripNone(d) == [k \in {x \in DOMAIN d : d[x] # None} |-> d[k]]

\* All dicts with keys among ks and values among vs.
Dicts(ks, vs) == UNION {[d -> vs] : d \in SUBSET ks}

---------------------------------------------------------------------------
(* internal_utils.py *)

FormContentType == "application/x-www-form-urlencoded"
JsonContentType == "application/json;charset=utf-8"

\* The names a module can read at run time.  internal_utils.py imports os,
\* platform, typing, __version__ and HttpBinRequestError: it reads sys (in
\* get_user_agent) and ssl (in _build_req_args) without importing them.
InternalUtilsGlobals ==
    {"os", "platform", "Dict", "Optional", "__version__", "HttpBinRequestError"}

\* get_user_agent(): the user agent string, or the exception it raises.
get_user_agent ==
    IF "sys" \in InternalUtilsGlobals
    THEN [exc |-> "none", value |-> "Python/3 httpbin_client/0 Linux/6"]
    ELSE [exc |-> "NameError", value |-> None]

\* _get_headers: [exc, value], value the final header mapping.
_get_headers(headers, token, has_json, has_files, request_specific_headers) ==
    LET needs_ua == headers = NoDict \/ "User-Agent" \notin DOMAIN headers
        h1 == [k \in {"Content-Type"} |-> FormContentType]
        h2 == IF needs_ua
              THEN Update(h1, [k \in {"User-Agent"} |-> get_user_agent.value])
              ELSE h1
        h3 == IF Truthy(token)
              THEN Update(h2, [k \in {"Authorization"} |-> "Bearer " \o PyStr(token)])
              ELSE h2
        hs == IF headers = NoDict THEN EmptyDict ELSE headers
        h4 == Update(h3, hs)
        h5 == IF request_specific_headers # NoDict
                 /\ request_specific_headers # EmptyDict
              THEN Update(h4, request_specific_headers)
              ELSE h4
        h6 == IF has_json
              THEN Update(h5, [k \in {"Content-Type"} |-> JsonContentType])
              ELSE h5
        h7 == IF has_files THEN Pop(h6, "Content-Type") ELSE h6
    IN  IF needs_ua /\ get_user_agent.exc # "none"
        THEN [exc |-> get_user_agent.exc, value |-> NoDict]
        ELSE [exc |-> "none", value |-> h7]

\* A merge in which the defaults win: target.update(default_params).
_set_default_params_overwriting(target, default_params) ==
    Update(target, default_params)

\* _set_default_params: the target mapping after the call (it is changed in
\* place).
_set_default_params(target, default_params) ==
    [k \in (DOMAIN target) \cup (DOMAIN default_params) |->
        IF k \in DOMAIN target THEN target[k] ELSE default_params[k]]

\* The null-stripping comprehensions of _build_req_args, one per payload:
\* data (line 104), files (line 107) and params (line 112) are rebuilt
\* without their None entries; json has no such line.
StripData(data) == StripNone(data)
StripFiles(files) == StripNone(files)
StripParams(params) == StripNone(params)
StripJson(json) == json

\* _build_req_args: the exception raised (with the line that raises it) and
\* the values of the locals at that point; json is the caller's own object,
\* changed in place, while data, files and params are rebound to new dicts.
_build_req_args(token, http_verb, files, data, default_params, params, json, headers) ==
    LET has_json  == json # NoDict
        has_files == files # NoDict
        data1   == IF data # NoDict
                   THEN _set_default_params(StripData(data), default_params)
                   ELSE data
        files1  == IF files # NoDict THEN StripFiles(files) ELSE files
        params1 == IF params # NoDict
                   THEN _set_default_params(StripParams(params), default_params)
                   ELSE params
        json1   == IF json # NoDict
                   THEN _set_default_params(StripJson(json), default_params)
                   ELSE json
        ptok    == params1 # NoDict /\ "token" \in DOMAIN params1
        token1  == IF ptok THEN params1["token"] ELSE token
        params2 == IF ptok THEN Pop(params1, "token") ELSE params1
        jtok    == json1 # NoDict /\ "token" \in DOMAIN json1
        token2  == IF jtok THEN json1["token"] ELSE token1
        json2   == IF jtok THEN Pop(json1, "token") ELSE json1
        hdrs    == _get_headers(headers, token2, has_json, has_files, headers)
    IN  IF has_json /\ http_verb # "POST"
        THEN [exc |-> "HttpBinRequestError", line |-> 101, returned |-> FALSE,
              data |-> data, files |-> files, params |-> params, json |-> json,
              token |-> token, headers |-> NoDict]
        ELSE IF hdrs.exc # "none"
        THEN [exc |-> hdrs.exc, line |-> 20, returned |-> FALSE,
              data |-> data1, files |-> files1, params |-> params2,
              json |-> json2, token |-> token2, headers |-> NoDict]
        ELSE IF "ssl" \notin InternalUtilsGlobals
        THEN [exc |-> "NameError", line |-> 134, returned |-> FALSE,
              data |-> data1, files |-> files1, params |-> params2,
              json |-> json2, token |-> token2, headers |-> hdrs.value]
        ELSE [exc |-> "none", line |-> 138, returned |-> TRUE,
              data |-> data1, files |-> files1, params |-> params2,
              json |-> json2, token |-> token2, headers |-> hdrs.value]

---------------------------------------------------------------------------
(* Direct calls of the builders *)

\* How many times a call of _build_req_args is repeated with the same
\* argument objects.
MaxRepeat == 1

PayloadKeys == {"token", "a"}
PayloadDicts == Dicts(PayloadKeys, {None, "", "t"})
JsonDicts == Dicts(PayloadKeys, {None, "", "u"})
DefaultParamSets == {EmptyDict, [k \in PayloadKeys |-> IF k = "token" THEN "dt" ELSE "d"]}
FileDicts == {[k \in {"file"} |-> "<bytes>"]}
Verbs == {"GET", "POST"}
Tokens == {None, "cfg"}

HeaderKeys == {"User-Agent", "Content-Type", "content-type", "Authorization", "X-Trace"}
\* Header mappings given at client construction, and per call.
ClientHeaderDicts == {[k \in d |-> "c:" \o k] : d \in SUBSET HeaderKeys}
CallHeaderDicts == {[k \in d |-> "p:" \o k] : d \in SUBSET HeaderKeys}
BuilderHeaderDicts ==
    {NoDict, EmptyDict,
     [k \in {"User-Agent"} |-> "c:User-Agent"],
     [k \in {"User-Agent", "Authorization", "content-type"} |-> "c:" \o k]}

\* data and params are processed by separate, identical code; the calls of
\* the model pass one of them, or the same content as both.
PayloadPairs ==
    {<<d, p>> \in (PayloadDicts \cup {NoDict}) \X (PayloadDicts \cup {NoDict}) :
        d = NoDict \/ p = NoDict \/ d = p}

NoCall == [op |-> "none"]

BuildReqArgs ==
    /\ pc = "idle"
    /\ \E token \in Tokens, http_verb \in Verbs,
          files \in FileDicts \cup {NoDict},
          dp \in PayloadPairs,
          default_params \in DefaultParamSets,
          json \in JsonDicts \cup {NoDict},
          headers \in BuilderHeaderDicts :
        LET f == _build_req_args(token, http_verb, files, dp[1],
                                 default_params, dp[2], json, headers)
        IN  /\ call' = [op |-> "_build_req_args",
                        token |-> token, http_verb |-> http_verb,
                        files |-> files, data |-> dp[1],
                        default_params |-> default_params,
                        params |-> dp[2], json |-> json, headers |-> headers,
                        frame |-> f, first |-> f, repeat |-> 0]
            /\ json_obj' = f.json
    /\ pc' = "done"
    /\ UNCHANGED <<client, headers_obj, transport>>

\* The caller makes the same call again, with the same argument objects.
RepeatBuildReqArgs ==
    /\ pc = "done"
    /\ call.op = "_build_req_args"
    /\ call.repeat < MaxRepeat
    /\ LET f == _build_req_args(call.token, call.http_verb, call.files,
                                call.data, call.default_params, call.params,
                                json_obj, call.headers)
       IN  /\ call' = [call EXCEPT !.frame = f, !.repeat = @ + 1]
           /\ json_obj' = f.json
    /\ UNCHANGED <<client, pc, headers_obj, transport>>

GetHeaders ==
    /\ pc = "idle"
    /\ \E headers \in ClientHeaderDicts \cup {NoDict},
          request_specific_headers \in CallHeaderDicts \cup {NoDict},
          token \in {None, "", "t"},
          has_json \in BOOLEAN, has_files \in BOOLEAN :
        call' = [op |-> "_get_headers",
                 headers |-> headers, token |-> token,
                 has_json |-> has_json, has_files |-> has_files,
                 request_specific_headers |-> request_specific_headers,
                 result |-> _get_headers(headers, token, has_json, has_files,
                                         request_specific_headers)]
    /\ pc' = "done"
    /\ UNCHANGED <<client, json_obj, headers_obj, transport>>

\* The caller has handled the result or the exception.
Return ==
    /\ pc = "done"
    /\ pc' = "idle"
    /\ call' = NoCall
    /\ json_obj' = NoDict
    /\ headers_obj' = NoDict
    /\ UNCHANGED <<client, transport>>

DefaultClient == [token |-> None, headers |-> EmptyDict, default_params |-> EmptyDict]

InitBuild ==
    /\ client = DefaultClient
    /\ pc = "idle"
    /\ call = NoCall
    /\ json_obj = NoDict
    /\ headers_obj = NoDict
    /\ transport = 0

NextBuild == BuildReqArgs \/ RepeatBuildReqArgs \/ GetHeaders \/ Return

SpecBuild == InitBuild /\ [][NextBuild]_vars


---------------------------------------------------------------------------
(* Text: a str is a sequence of one-character strings *)

NonJsonPrefix == <<"R", "e", "c", "e", "i", "v", "e", "d", " ", "a", " ", "r", "e", "s", "p", "o", "n", "s", "e", " ", "i", "n", " ", "a", " ", "n", "o", "n", "-", "J", "S", "O", "N", " ", "f", "o", "r", "m", "a", "t", ":", " ">>
ServerResponded == <<"\n", "T", "h", "e", " ", "s", "e", "r", "v", "e", "r", " ", "r", "e", "s", "p", "o", "n", "d", "e", "d", " ", "w", "i", "t", "h", ":", " ">>
Ellipsis == <<".", ".", ".">>

\* The characters str.strip() removes, among those of the model.
Whitespace == {" ", "\t", "\n", "\r"}

\* body.replace("\r", "\n")
ReplaceCR(s) == [i \in 1..Len(s) |-> IF s[i] = "\r" THEN "\n" ELSE s[i]]

\* s.split("\n"): the lines, one more than there are "\n" in s.
Split(s) ==
    LET brk == {i \in 1..Len(s) : s[i] = "\n"}
        \* the n-th line break (0 before the first line, Len+1 after the last)
        At(n) == IF n = 0 THEN 0
                 ELSE IF n > Cardinality(brk) THEN Len(s) + 1
                 ELSE CHOOSE i \in brk : Cardinality({j \in brk : j <= i}) = n
    IN  [n \in 1..(Cardinality(brk) + 1) |-> SubSeq(s, At(n - 1) + 1, At(n) - 1)]

\* line.strip()
Strip(line) ==
    LET ink == {i \in 1..Len(line) : line[i] \notin Whitespace}
    IN  IF ink = {} THEN <<>>
        ELSE SubSeq(line,
                    CHOOSE i \in ink : \A j \in ink : i <= j,
                    CHOOSE i \in ink : \A j \in ink : j <= i)

\* "".join(lines)
RECURSIVE Join(_)
Join(lines) == IF lines = <<>> THEN <<>> ELSE Head(lines) \o Join(Tail(lines))

\* The length to which the preview of a non-JSON body is cut.
PreviewLimit == 100

\* The message with the lines joined unstripped and the cut one character
\* late.
_build_unexpected_body_error_message_loose(body) ==
    LET body_for_logging == Join(Split(ReplaceCR(body)))
        cut == IF Len(body_for_logging) > PreviewLimit + 1
               THEN SubSeq(body_for_logging, 1, PreviewLimit + 1) \o Ellipsis
               ELSE body_for_logging
    IN  NonJsonPrefix \o cut

\* _build_unexpected_body_error_message
_build_unexpected_body_error_message(body) ==
    LET lines == Split(ReplaceCR(body))
        body_for_logging == Join([n \in 1..Len(lines) |-> Strip(lines[n])])
        cut == IF Len(body_for_logging) > PreviewLimit
               THEN SubSeq(body_for_logging, 1, PreviewLimit) \o Ellipsis
               ELSE body_for_logging
    IN  NonJsonPrefix \o cut

---------------------------------------------------------------------------
(* json.loads, for the JSON the model's bodies are written in: objects,     *)
(* strings without escapes, integers without sign, fraction or exponent,    *)
(* true, false and null.  A decoded value is a record tagged with its type. *)

JsonWhitespace == {" ", "\t", "\n", "\r"}
Digits == {"0", "1", "2", "3", "4", "5", "6", "7", "8", "9"}
DigitValue(c) ==
    CASE c = "0" -> 0 [] c = "1" -> 1 [] c = "2" -> 2 [] c = "3" -> 3
      [] c = "4" -> 4 [] c = "5" -> 5 [] c = "6" -> 6 [] c = "7" -> 7
      [] c = "8" -> 8 [] c = "9" -> 9

PyNone == [t |-> "none"]
PyBool(b) == [t |-> "bool", bool |-> b]
PyInt(n) == [t |-> "int", int |-> n]
PyText(s) == [t |-> "str", chars |-> s]
PyBytes(s) == [t |-> "bytes", bytes |-> s]
PyDict(d) == [t |-> "dict", items |-> d]

\* bool(x) of a decoded value
PyTruthy(x) ==
    CASE x.t = "none"  -> FALSE
      [] x.t = "bool"  -> x.bool
      [] x.t = "int"   -> x.int # 0
      [] x.t = "dict"  -> DOMAIN x.items # {}
      [] x.t = "str"   -> Len(x.chars) > 0
      [] x.t = "bytes" -> Len(x.bytes) > 0

Fail == [ok |-> FALSE, v |-> PyNone, next |-> 0]
Parsed(v, next) == [ok |-> TRUE, v |-> v, next |-> next]

RECURSIVE SkipWs(_, _)
SkipWs(s, i) ==
    IF i <= Len(s) /\ s[i] \in JsonWhitespace THEN SkipWs(s, i + 1) ELSE i

StartsWith(s, i, lit) ==
    /\ i + Len(lit) - 1 <= Len(s)
    /\ SubSeq(s, i, i + Len(lit) - 1) = lit

RECURSIVE ScanDigits(_, _, _)
ScanDigits(s, i, n) ==
    IF i <= Len(s) /\ s[i] \in Digits
    THEN ScanDigits(s, i + 1, 10 * n + DigitValue(s[i]))
    ELSE Parsed(PyInt(n), i)

\* 0 | [1-9][0-9]*
ParseNumber(s, i) ==
    IF s[i] = "0" THEN Parsed(PyInt(0), i + 1) ELSE ScanDigits(s, i, 0)

RECURSIVE ScanString(_, _)
ScanString(s, i) ==
    IF i > Len(s) THEN 0
    ELSE IF s[i] = "\"" THEN i
    ELSE IF s[i] \in {"\n", "\r", "\t", "\\"} THEN 0
    ELSE ScanString(s, i + 1)

ParseString(s, i) ==
    LET j == ScanString(s, i + 1)
    IN  IF j = 0 THEN Fail ELSE Parsed(PyText(SubSeq(s, i + 1, j - 1)), j + 1)

RECURSIVE ParseValue(_, _)
RECURSIVE ParseMembers(_, _, _)

ParseMembers(s, i, acc) ==
    IF i > Len(s) \/ s[i] # "\"" THEN Fail
    ELSE LET k == ParseString(s, i)
             c == SkipWs(s, k.next)
             v == ParseValue(s, SkipWs(s, c + 1))
             acc2 == Update(acc, [x \in {k.v.chars} |-> v.v])
             e == SkipWs(s, v.next)
         IN  IF ~k.ok THEN Fail
             ELSE IF c > Len(s) \/ s[c] # ":" THEN Fail
             ELSE IF ~v.ok THEN Fail
             ELSE IF e > Len(s) THEN Fail
             ELSE IF s[e] = "}" THEN Parsed(PyDict(acc2), e + 1)
             ELSE IF s[e] = "," THEN ParseMembers(s, SkipWs(s, e + 1), acc2)
             ELSE Fail

ParseValue(s, i) ==
    IF i > Len(s) THEN Fail
    ELSE IF s[i] = "{"
    THEN LET j == SkipWs(s, i + 1)
         IN  IF j <= Len(s) /\ s[j] = "}"
             THEN Parsed(PyDict(<<>>), j + 1)
             ELSE ParseMembers(s, j, <<>>)
    ELSE IF s[i] = "\"" THEN ParseString(s, i)
    ELSE IF s[i] \in Digits THEN ParseNumber(s, i)
    ELSE IF StartsWith(s, i, <<"t", "r", "u", "e">>) THEN Parsed(PyBool(TRUE), i + 4)
    ELSE IF StartsWith(s, i, <<"f", "a", "l", "s", "e">>) THEN Parsed(PyBool(FALSE), i + 5)
    ELSE IF StartsWith(s, i, <<"n", "u", "l", "l">>) THEN Parsed(PyNone, i + 4)
    ELSE Fail

\* json.loads(s): ok is FALSE where it raises JSONDecodeError.
json_loads(s) ==
    LET r == ParseValue(s, SkipWs(s, 1))
    IN  IF r.ok /\ SkipWs(s, r.next) = Len(s) + 1
        THEN [ok |-> TRUE, v |-> r.v]
        ELSE [ok |-> FALSE, v |-> PyNone]

---------------------------------------------------------------------------
(* errors.py, response.py *)

\* HttpBinApiError(message, response): str(e) is text followed by the
\* rendering of response, which is kept as the response itself.
HttpBinApiError(message, response) ==
    [type |-> "HttpBinApiError", text |-> message \o ServerResponded,
     response |-> response]

NoError == [type |-> "none", text |-> <<>>, response |-> PyNone]
Raised(type) == [type |-> type, text |-> <<>>, response |-> PyNone]

\* The fields of the Response dataclass: the keywords its constructor takes.
ResponseFields == {"api_url", "status_code", "headers", "data"}

\* The keywords the built-in Exception constructor takes: none.
ExceptionKeywords == {}

\* What validate raises on failure: Exception(message=msg, response=self).
ValidateFailure ==
    IF {"message", "response"} \subseteq ExceptionKeywords
    THEN Raised("Exception")
    ELSE Raised("TypeError")

\* Response.validate: [error, value], value the response it returns.
validate(self) ==
    IF self.status_code # 200 \/ ~PyTruthy(self.data)
    THEN [error |-> ValidateFailure, returned |-> FALSE]
    ELSE IF self.data.t = "bytes"
    THEN [error |-> NoError, returned |-> TRUE]
    ELSE IF self.data.t # "dict"
    THEN [error |-> Raised("AttributeError"), returned |-> FALSE]
    ELSE IF PyTruthy(IF <<"o", "k">> \in DOMAIN self.data.items
                     THEN self.data.items[<<"o", "k">>]
                     ELSE PyBool(FALSE))
    THEN [error |-> NoError, returned |-> TRUE]
    ELSE [error |-> ValidateFailure, returned |-> FALSE]

---------------------------------------------------------------------------
(* client.py *)

\* BaseClient.__init__
StripToken(token) == IF token = " cfg " THEN "cfg" ELSE token
BaseClient(token, headers) ==
    [token |-> IF token = None THEN None ELSE StripToken(token),
     headers |-> IF headers = NoDict THEN EmptyDict ELSE headers,
     default_params |-> EmptyDict]

\* The keyword-only parameters of _build_req_args (none has a default), and
\* the keywords api_call passes to it.
BuildReqArgsParameters ==
    {"token", "http_verb", "files", "data", "default_params", "params",
     "json", "headers", "auth", "proxy"}
ApiCallKeywords ==
    {"token", "http_method", "files", "data", "default_params", "params",
     "json", "headers", "auth", "proxy"}

\* BaseClient.api_call: the outcome, the caller's headers object after the
\* call, and whether the transport (_sync_send) was reached.
api_call(self, http_method, files, data, params, json, headers) ==
    LET fresh  == headers = NoDict \/ headers = EmptyDict
        merged == Update(IF fresh THEN EmptyDict ELSE headers, self.headers)
        bound  == ApiCallKeywords = BuildReqArgsParameters
        frame  == _build_req_args(self.token, http_method, files, data,
                                  self.default_params, params, json, merged)
    IN  [exc |-> IF ~bound THEN "TypeError" ELSE frame.exc,
         merged_headers |-> merged,
         headers_after |-> IF fresh THEN headers ELSE merged,
         json_after |-> IF bound THEN frame.json ELSE json,
         final_headers |-> IF bound THEN frame.headers ELSE NoDict,
         transport_invoked |-> bound /\ frame.returned]

\* BaseClient._build_urllib_request_headers
_build_urllib_request_headers(self, token, has_json, has_files, additional_headers) ==
    LET h1 == Update([k \in {"Content-Type"} |-> FormContentType], self.headers)
        h2 == IF Truthy(token)
              THEN Update(h1, [k \in {"Authorization"} |-> "Bearer " \o PyStr(token)])
              ELSE h1
        h3 == IF additional_headers # EmptyDict
              THEN Update(h2, additional_headers)
              ELSE h2
        h4 == IF has_json
              THEN Update(h3, [k \in {"Content-Type"} |-> JsonContentType])
              ELSE h3
    IN  IF has_files THEN Pop(h4, "Content-Type") ELSE h4

\* The keywords _urllib_api_call passes to the Response constructor.
UrllibResponseKeywords ==
    {"client", "http_verb", "api_url", "req_args", "data", "headers",
     "status_code"}

\* BaseClient._urllib_api_call, given the transport's answer `response`
\* ([status, headers, body]): the request headers sent, the error raised
\* and the validated response returned.
_urllib_api_call(self, token, files, additional_headers, response) ==
    LET request_headers ==
            _build_urllib_request_headers(
                self, IF Truthy(token) THEN token ELSE self.token,
                TRUE,   \* `json is not None`: json is the imported module
                files # NoDict, additional_headers)
        body   == response.body
        text   == body.t = "str"
        loaded == json_loads(body.chars)
        data   == IF text THEN loaded.v ELSE body
        built  == [api_url |-> "url", status_code |-> response.status,
                   headers |-> response.headers, data |-> data]
        v      == validate(built)
    IN  IF text /\ ~loaded.ok
        THEN [request_headers |-> request_headers, returned |-> FALSE,
              error |-> HttpBinApiError(
                            _build_unexpected_body_error_message(body.chars),
                            response),
              value |-> built]
        ELSE IF ~(UrllibResponseKeywords \subseteq ResponseFields)
        THEN [request_headers |-> request_headers, returned |-> FALSE,
              error |-> Raised("TypeError"), value |-> built]
        ELSE [request_headers |-> request_headers, returned |-> v.returned,
              error |-> v.error, value |-> built]

---------------------------------------------------------------------------
(* The client in use *)

\* How many transport round trips a run makes.
MaxTransport == 2
\* The longest body that is enumerated character by character.
MaxShort == 3
\* How far beyond PreviewLimit the long bodies reach.
MaxOver == 2

RECURSIVE Rep(_, _)
Rep(c, n) == IF n <= 0 THEN <<>> ELSE <<c>> \o Rep(c, n - 1)

ShortAlphabet == {"a", " ", "\n", "\r", "1"}
ShortBodies == UNION {[1..n -> ShortAlphabet] : n \in 0..MaxShort}

JsonBodies == {
    <<"{", "\"", "o", "k", "\"", ":", "t", "r", "u", "e", "}">>,
    <<"{", "\"", "o", "k", "\"", ":", " ", "f", "a", "l", "s", "e", "}">>,
    <<"{", "}">>,
    <<"{", "\"", "o", "k", "\"", ":", "t", "r", "u", "e", ",", "\"", "a", "\"", ":", "1", "}">>,
    <<"{", "\"", "a", "\"", ":", "1", "}">>,
    <<" ", "{", "\"", "o", "k", "\"", ":", "t", "r", "u", "e", "}", "\n">>,
    <<"{", "\"", "o", "k", "\"", ":", "n", "u", "l", "l", "}">>,
    <<"{", "\"", "o", "k", "\"", ":", "0", "}">>,
    <<"{", "\"", "o", "k", "\"", ":", "\"", "a", "\"", "}">>,
    <<"{", "\"", "o", "k", "\"", ":", "\"", "\"", "}">>,
    <<"t", "r", "u", "e">>,
    <<"n", "u", "l", "l">>,
    <<"\"", "o", "k", "\"">>,
    <<"{", "\"", "o", "k", "\"", ":", "t", "r", "u", "e", ",", "\"", "o", "k", "\"", ":", "f", "a", "l", "s", "e", "}">>,
    <<"0">>,
    <<"1", "0">>,
    <<"{", "\"", "o", "k", "\"", ":", "t", "r", "u", "e", "\r", "\n", "}">>,
    <<"{", "\"", "a", "\"", ":", "{", "\"", "o", "k", "\"", ":", "t", "r", "u", "e", "}", "}">> }

BrokenJsonBodies == {
    <<"{", "\"", "o", "k", "\"", ":", "1">>,
    <<"{", "\"", "o", "k", "\"", ":", "t", "r", "u", "e", ",", "}">>,
    <<"{", "\"", "o", "k", "\"", ":", "t", "r", "u", "e", "}", "a">>,
    <<"{", "o", "k", ":", "t", "r", "u", "e", "}">>,
    <<"0", "1">>,
    <<"<", "h", "t", "m", "l", ">", "\r", "\n", " ", "\t", "o", "o", "p", "s", " ", "\n", "<", "/", "h", "t", "m", "l", ">">> }

\* Bodies around the preview limit: one line, one line with blanks and line
\* breaks around it, and two lines.
LongBodies ==
    UNION {{Rep("a", n),
            <<" ", "\t">> \o Rep("a", n) \o <<" ", "\r", "\n", " ">>,
            Rep("a", n - 1) \o <<" ", "\n", " ">> \o <<"b">>,
            Rep("a", 2) \o <<" ">> \o Rep("b", n - 2)}
           : n \in (PreviewLimit - 1)..(PreviewLimit + MaxOver)}

TextBodies == ShortBodies \cup JsonBodies \cup BrokenJsonBodies \cup LongBodies

\* What the transport answers: a status, headers and a body (text, bytes or
\* none).
RawResponses ==
    [status : {200, 500},
     headers : {[k \in {"Content-Type"} |-> "text/plain"]},
     body : {PyText(b) : b \in TextBodies}
            \cup {PyBytes(<<>>), PyBytes(<<"x">>), PyNone}]

\* Responses a caller validates directly.
Responses ==
    [api_url : {"url"}, status_code : {200, 500},
     headers : {EmptyDict},
     data : {json_loads(b).v : b \in {x \in JsonBodies : json_loads(x).v.t = "dict"}}
            \cup {PyBytes(<<>>), PyBytes(<<"x">>)}]

FacadeHeaderKeys == {"User-Agent", "X-Trace"}

ApiCall ==
    /\ pc = "idle"
    /\ \E http_method \in Verbs,
          files \in FileDicts \cup {NoDict},
          data \in {NoDict, [k \in {"a"} |-> "t"]},
          params \in {NoDict, [k \in {"token"} |-> "t"]},
          json \in {NoDict, EmptyDict, [k \in {"token"} |-> "u"]},
          headers \in {NoDict} \cup {h \in CallHeaderDicts : DOMAIN h \subseteq FacadeHeaderKeys} :
        LET r == api_call(client, http_method, files, data, params, json, headers)
        IN  /\ call' = [op |-> "api_call", http_method |-> http_method,
                        files |-> files, data |-> data, params |-> params,
                        json |-> json, headers |-> headers,
                        exc |-> r.exc, merged_headers |-> r.merged_headers,
                        final_headers |-> r.final_headers,
                        transport_invoked |-> r.transport_invoked]
            /\ json_obj' = r.json_after
            /\ headers_obj' = r.headers_after
            /\ transport' = IF r.transport_invoked THEN transport + 1 ELSE transport
    /\ pc' = "done"
    /\ UNCHANGED client

UrllibApiCall ==
    /\ pc = "idle"
    /\ transport < MaxTransport
    /\ \E token \in {None, "t"},
          files \in {NoDict},
          additional_headers \in {EmptyDict, [k \in {"X-Trace"} |-> "p:X-Trace"]},
          response \in RawResponses :
        LET r == _urllib_api_call(client, token, files, additional_headers, response)
        IN  call' = [op |-> "_urllib_api_call", token |-> token,
                     additional_headers |-> additional_headers,
                     response |-> response,
                     request_headers |-> r.request_headers,
                     returned |-> r.returned, error |-> r.error,
                     value |-> r.value]
    /\ transport' = transport + 1
    /\ pc' = "done"
    /\ UNCHANGED <<client, json_obj, headers_obj>>

Validate ==
    /\ pc = "idle"
    /\ \E self \in Responses :
        LET r == validate(self)
        IN  call' = [op |-> "validate", self |-> self,
                     returned |-> r.returned, error |-> r.error,
                     value |-> self]
    /\ pc' = "done"
    /\ UNCHANGED <<client, json_obj, headers_obj, transport>>

Init ==
    /\ client \in {BaseClient(t, h) :
                      t \in {None, " cfg "},
                      h \in {NoDict} \cup {x \in ClientHeaderDicts : DOMAIN x \subseteq FacadeHeaderKeys}}
    /\ pc = "idle"
    /\ call = NoCall
    /\ json_obj = NoDict
    /\ headers_obj = NoDict
    /\ transport = 0

Next == ApiCall \/ UrllibApiCall \/ Validate \/ Return

Spec == Init /\ [][Next]_vars

---------------------------------------------------------------------------
(* Properties *)

IsBuild == call.op = "_build_req_args"

\* A first call of _build_req_args that got past the verb check: for each
\* payload the caller supplied, <<kind, the payload as supplied, the payload
\* as the builder left it>>.
Payloads ==
    {p \in {<<"data", call.data, call.frame.data>>,
            <<"params", call.params, call.frame.params>>,
            <<"json", call.json, call.frame.json>>} : p[2] # NoDict}
Merged == IsBuild /\ call.repeat = 0 /\ call.frame.line # 101

\* str.lower() of the header names of the model.
Lower(k) ==
    CASE k = "Content-Type"  -> "content-type"
      [] k = "User-Agent"    -> "user-agent"
      [] k = "Authorization" -> "authorization"
      [] k = "X-Trace"       -> "x-trace"
      [] OTHER               -> k

\* C1: a call through api_call with a JSON payload and a verb other than
\* POST fails with HttpBinRequestError, and the transport is not invoked.
C1_JsonWithNonPostRaisesRequestError ==
    (call.op = "api_call" /\ call.json # NoDict /\ call.http_method # "POST")
        => (call.exc = "HttpBinRequestError" /\ ~call.transport_invoked)

\* C2, as claimed: the default-parameter merge never changes the value of a
\* key the caller's payload contains, for data, params and json alike.
C2_DefaultNeverOverwritesSuppliedKey ==
    Merged =>
        \A p \in Payloads :
            \A k \in (DOMAIN p[2]) \cap (DOMAIN p[3]) : p[3][k] = p[2][k]

\* C2, amended: after the merge every key of a payload holds either the
\* value the caller supplied for it, or the default for it, and the default
\* only where the caller supplied no such key or supplied it as None.
C2_DefaultOnlyUnderAbsentOrNoneKey ==
    Merged =>
        \A p \in Payloads :
            \A k \in DOMAIN p[3] :
                \/ k \in DOMAIN p[2] /\ p[3][k] = p[2][k]
                \/ /\ k \notin DOMAIN p[2] \/ p[2][k] = None
                   /\ k \in DOMAIN call.default_params
                   /\ p[3][k] = call.default_params[k]

\* C2's case: defaults exist for keys the caller's data and json contain
\* and for one they lack; the supplied values stay, the missing key is
\* filled in.
C2_Witness ==
    /\ Merged
    /\ call.data = [k \in {"a"} |-> "t"]
    /\ call.json = [k \in {"a"} |-> "u"]
    /\ call.default_params # EmptyDict
    /\ call.frame.data["a"] = "t" /\ call.frame.data["token"] = "dt"
    /\ call.frame.json["a"] = "u"

\* data.get("ok", False) is truthy
DataOk(data) ==
    /\ <<"o", "k">> \in DOMAIN data.items
    /\ PyTruthy(data.items[<<"o", "k">>])

\* C3: validating a 200 response whose decoded body is a mapping with ok
\* false or absent raises HttpBinApiError carrying the response.
C3_NotOkRaisesApiError ==
    (/\ call.op = "validate"
     /\ call.self.status_code = 200
     /\ call.self.data.t = "dict"
     /\ ~DataOk(call.self.data))
        => (/\ ~call.returned
            /\ call.error.type = "HttpBinApiError"
            /\ call.error.response = call.self)

\* C4: a 200 response whose text body decodes to a mapping with ok true is
\* returned validated, its data the decoded mapping, its status code and
\* headers those of the raw response.
C4_OkMappingValidates ==
    (/\ call.op = "_urllib_api_call"
     /\ call.response.status = 200
     /\ call.response.body.t = "str"
     /\ json_loads(call.response.body.chars).ok
     /\ json_loads(call.response.body.chars).v.t = "dict"
     /\ DataOk(json_loads(call.response.body.chars).v))
        => (/\ call.returned
            /\ call.error.type = "none"
            /\ call.value.data = json_loads(call.response.body.chars).v
            /\ call.value.status_code = call.response.status
            /\ call.value.headers = call.response.headers)

\* The characters of s at the positions in keep, from position i on.
RECURSIVE Pick(_, _, _)
Pick(s, keep, i) ==
    IF i > Len(s) THEN <<>>
    ELSE (IF i \in keep THEN <<s[i]>> ELSE <<>>) \o Pick(s, keep, i + 1)

\* The characters of a body that are neither line breaks nor blanks at
\* either end of their line, in order: position i stays when its line has a
\* non-blank character at or before i and one at or after i.
Collapsed(s) ==
    LET brk(i) == s[i] \in {"\n", "\r"}
        ink(i) == s[i] \notin Whitespace
        keep == {i \in 1..Len(s) :
                    /\ \E j \in 1..i : ink(j) /\ \A m \in j..i : ~brk(m)
                    /\ \E j \in i..Len(s) : ink(j) /\ \A m \in i..j : ~brk(m)}
    IN  Pick(s, keep, 1)

\* C5: a text body that is not JSON fails the call with HttpBinApiError,
\* whose message is the fixed prefix followed by the first 100 characters
\* at most of the body with its lines stripped and joined (and by "..."
\* when more were cut off).
C5_NonJsonBodyRaisesApiErrorWithPreview ==
    (/\ call.op = "_urllib_api_call"
     /\ call.response.body.t = "str"
     /\ ~json_loads(call.response.body.chars).ok)
        => LET all == Collapsed(call.response.body.chars)
               preview == SubSeq(all, 1, IF Len(all) > 100 THEN 100 ELSE Len(all))
           IN  /\ ~call.returned
               /\ call.error.type = "HttpBinApiError"
               /\ call.error.response = call.response
               /\ Len(preview) <= 100
               /\ \A i \in 1..Len(preview) : preview[i] \notin {"\n", "\r"}
               /\ call.error.text \in
                    {NonJsonPrefix \o preview \o ServerResponded,
                     NonJsonPrefix \o preview \o Ellipsis \o ServerResponded}
               /\ (Len(all) <= 100) =>
                    call.error.text = NonJsonPrefix \o preview \o ServerResponded

\* C5's case: a non-JSON body of several lines, longer than the limit once
\* collapsed, has been reported with its preview cut.
C5_Witness ==
    /\ call.op = "_urllib_api_call"
    /\ call.response.body.t = "str"
    /\ ~json_loads(call.response.body.chars).ok
    /\ \E i \in 1..Len(call.response.body.chars) :
           call.response.body.chars[i] = "\n"
    /\ Len(Collapsed(call.response.body.chars)) > 100
    /\ call.error.type = "HttpBinApiError"
    /\ Len(call.error.text) = Len(NonJsonPrefix) + 100 + 3 + Len(ServerResponded)

\* C6: with file attachments present, the final headers hold no
\* Content-Type key, in whatever letter case it was supplied.
C6_FilesNeverCarryContentType ==
    /\ (call.op = "_get_headers" /\ call.has_files /\ call.result.exc = "none")
        => \A k \in DOMAIN call.result.value : Lower(k) # "content-type"
    /\ (IsBuild /\ call.files # NoDict /\ call.frame.headers # NoDict)
        => \A k \in DOMAIN call.frame.headers : Lower(k) # "content-type"

\* C7: a call whose params contain a token key resolves to params without
\* it and to headers with Authorization: Bearer <that token>.
C7_ParamsTokenBecomesAuthorization ==
    (IsBuild /\ call.repeat = 0 /\ call.params # NoDict
             /\ "token" \in DOMAIN call.params)
        => (/\ call.frame.returned
            /\ "token" \notin DOMAIN call.frame.params
            /\ "Authorization" \in DOMAIN call.frame.headers
            /\ call.frame.headers["Authorization"]
                 = "Bearer " \o PyStr(call.params["token"]))

\* C8: where the per-call headers and the client's headers hold the same
\* key, the headers api_call builds the request from carry the per-call
\* value (Content-Type aside, which the body kind may force).
C8_PerCallHeadersWin ==
    (call.op = "api_call" /\ call.headers # NoDict)
        => \A k \in ((DOMAIN call.headers) \cap (DOMAIN client.headers))
                        \ {"Content-Type"} :
               /\ k \in DOMAIN call.merged_headers
               /\ call.merged_headers[k] = call.headers[k]

\* C9: no payload the builder resolves holds an entry the caller supplied
\* as None, while an entry supplied as "" stays (unless it is the inline
\* token of params or json, which is popped).
C9_NoneEntriesDropped ==
    Merged =>
        \A p \in Payloads :
            \A k \in DOMAIN p[2] :
                /\ p[2][k] = None => ~(k \in DOMAIN p[3] /\ p[3][k] = None)
                /\ p[2][k] = "" =>
                     \/ k \in DOMAIN p[3] /\ p[3][k] = ""
                     \/ k = "token" /\ p[1] # "data"

\* C10: building the request arguments leaves the caller's json mapping as
\* it was, and a call repeated with the same argument objects resolves to
\* the same token, headers and payloads as the first.
C10_CallerMappingsUnchanged ==
    IsBuild =>
        /\ json_obj = call.json
        /\ call.repeat > 0 =>
              /\ call.frame.token = call.first.token
              /\ call.frame.headers = call.first.headers
              /\ call.frame.data = call.first.data
              /\ call.frame.params = call.first.params
              /\ call.frame.json = call.first.json

=============================================================================
